---- MODULE Spec2Model ----
(***************************************************************************)
(* merge-ip: a stream of IPv4/CIDR tokens is tokenized (read_from_stream,  *)
(* parse_content, parse_cidr), sorted, merged (merge_ip_ranges) and        *)
(* summarized back to CIDR blocks (to_cidr, summarize_address_range).      *)
(*                                                                         *)
(* Scaling.  TLC has no 32-bit unsigned integers and cannot enumerate      *)
(* 1024-byte buffers, so two sizes of the program are scaled down and all  *)
(* arithmetic is kept parametric in them:                                  *)
(*   - an address has four octets of OCTET_BITS bits each (8 in the        *)
(*     source), so IP_BITS = 4 * OCTET_BITS (32 in the source) and         *)
(*     ALL_ONES = 2^IP_BITS - 1; every uint32_t computation is taken       *)
(*     modulo 2^IP_BITS;                                                   *)
(*   - BUFFER_SIZE is 20 (1024 in the source); it stays larger than the    *)
(*     longest token plus CIDR_MIN_LENGTH + 1, as in the source.           *)
(* Characters are one-character strings; a C string is the sequence of its *)
(* characters up to the terminating NUL.  C offsets (rm_so, rm_eo,         *)
(* parsed_length, reminder_size) are kept 0-based as in the source: the    *)
(* character at C offset k of a string c is c[k + 1].                      *)
(***************************************************************************)
EXTENDS Integers, Sequences, FiniteSets, TLC

(***************************************************************************)
(* Sizes                                                                   *)
(***************************************************************************)
OCTET_BITS == 1

IP_BITS == 4 * OCTET_BITS

ALL_ONES == 2^IP_BITS - 1

WORD == 2^IP_BITS

OCTET_MAX == 2^OCTET_BITS - 1

BUFFER_SIZE == 20

CIDR_MIN_LENGTH == 7

CIDR_MAX_LENGTH == IP_BITS

(***************************************************************************)
(* Characters                                                              *)
(***************************************************************************)
Digits == {"0", "1", "2", "3", "4", "5", "6", "7", "8", "9"}

\* the bracket list of the pattern, [ \t\n\r\v\f]; the same set as isspace()
Whitespace == {" ", "\t", "\n", "\r", "\f", "VT"}

DigitValue(ch) ==
    CASE ch = "0" -> 0 [] ch = "1" -> 1 [] ch = "2" -> 2 [] ch = "3" -> 3
      [] ch = "4" -> 4 [] ch = "5" -> 5 [] ch = "6" -> 6 [] ch = "7" -> 7
      [] ch = "8" -> 8 [] ch = "9" -> 9

DigitChar(n) ==
    CASE n = 0 -> "0" [] n = 1 -> "1" [] n = 2 -> "2" [] n = 3 -> "3"
      [] n = 4 -> "4" [] n = 5 -> "5" [] n = 6 -> "6" [] n = 7 -> "7"
      [] n = 8 -> "8" [] n = 9 -> "9"

\* the character at C offset k of the C string c; "NUL" at and after its end
CharAt(c, k) == IF k >= 0 /\ k < Len(c) THEN c[k + 1] ELSE "NUL"

isdigit(ch) == ch \in Digits

isspace(ch) == ch \in Whitespace

\* the C string that starts at offset k of c (the pointer c + k)
Advance(c, k) == IF k >= Len(c) THEN << >> ELSE SubSeq(c, k + 1, Len(c))

\* strtol / decimal value of a string of digits
RECURSIVE DecimalValue(_)
DecimalValue(ds) ==
    IF ds = << >> THEN 0
    ELSE 10 * DecimalValue(SubSeq(ds, 1, Len(ds) - 1)) + DigitValue(ds[Len(ds)])

\* "%d" of a number below 100
DecimalText(n) ==
    IF n < 10 THEN << DigitChar(n) >> ELSE << DigitChar(n \div 10), DigitChar(n % 10) >>

\* The pattern compiled by get_regex,
\*   (([0-9]{1,3}\.){3}[0-9]{1,3}(/([0-9]{1,2}))?)([ \t\n\r\v\f]*)
\* as regexec matches it: the leftmost match, and the longest one there.

\* how many characters of class cls follow from offset k, counted up to cap
ClassRun(c, k, cls, cap) ==
    CHOOSE n \in 0..cap :
        /\ \A j \in 0..(n - 1) : CharAt(c, k + j) \in cls
        /\ (n = cap \/ CharAt(c, k + n) \notin cls)

\* [0-9]{1,3}\. anchored at offset k: the offset after the dot, or -1
OctetDot(c, k) ==
    IF k < 0 THEN -1
    ELSE LET n == ClassRun(c, k, Digits, 4)
         IN  IF n \in 1..3 /\ CharAt(c, k + n) = "." THEN k + n + 1 ELSE -1

\* regmatch_t of a failed match
NoMatch == [found |-> FALSE, so |-> 0, eo1 |-> 0, eo5 |-> 0]

\* group 5, ([ \t\n\r\v\f]*), after the address that ends at cidr_end
MatchSpace(c, s, cidr_end) ==
    [found |-> TRUE, so |-> s, eo1 |-> cidr_end,
     eo5 |-> cidr_end + ClassRun(c, cidr_end, Whitespace, Len(c))]

\* group 3, (/([0-9]{1,2}))?, after the host that ends at host_end
MatchPrefix(c, s, host_end, np) ==
    MatchSpace(c, s, IF CharAt(c, host_end) = "/" /\ np > 0 THEN host_end + 1 + np ELSE host_end)

\* the fourth [0-9]{1,3}, at offset p3 after the three dotted octets
MatchHost(c, s, p3, n4) ==
    IF p3 < 0 \/ n4 = 0 THEN NoMatch
    ELSE MatchPrefix(c, s, p3 + n4, ClassRun(c, p3 + n4 + 1, Digits, 2))

MatchOctets(c, s, p3) == MatchHost(c, s, p3, IF p3 < 0 THEN 0 ELSE ClassRun(c, p3, Digits, 3))

\* the match anchored at offset s: [so, eo1, eo5] as regmatch_t, or found = FALSE
MatchAt(c, s) == MatchOctets(c, s, OctetDot(c, OctetDot(c, OctetDot(c, s))))

\* the leftmost of the offsets at which the pattern matches
LeftmostMatch(c, starts) ==
    IF starts = {} THEN NoMatch
    ELSE MatchAt(c, CHOOSE s \in starts : \A t \in starts : s <= t)

MatchStarts(c) == {s \in 0..(Len(c) - 1) : MatchAt(c, s).found}

regexec(c) == LeftmostMatch(c, MatchStarts(c))

(***************************************************************************)
(* uint32_t arithmetic, on IP_BITS bits                                    *)
(***************************************************************************)
BitNot(x) == ALL_ONES - x

RECURSIVE BitAnd(_, _)
BitAnd(x, y) ==
    IF x = 0 \/ y = 0 THEN 0
    ELSE (x % 2) * (y % 2) + 2 * BitAnd(x \div 2, y \div 2)

BitOr(x, y) == BitNot(BitAnd(BitNot(x), BitNot(y)))

(***************************************************************************)
(* parse_cidr                                                              *)
(***************************************************************************)
\* The int shift 1 << n.  For n = IP_BITS (prefix length 0) the shift count is
\* the width of the type, which is undefined in C: a build either masks the
\* count to the width (x86, MIPS: the result is 1 << 0) or shifts the bit out
\* (ARM: the result is 0).  ub names the build's outcome.
ShiftOutcomes == {"masked", "zero"}

ShiftOne(n, ub) ==
    IF n < IP_BITS THEN 2^n
    ELSE IF ub = "masked" THEN 2^(n % IP_BITS) ELSE 0

\* the offset of the first ch in c, or -1 (strchr)
strchr(c, ch) ==
    IF \A k \in 1..Len(c) : c[k] # ch THEN -1
    ELSE (CHOOSE k \in 1..Len(c) : c[k] = ch /\ \A j \in 1..(k - 1) : c[j] # ch) - 1

\* the dot-separated fields of a dotted string
RECURSIVE Fields(_)
Fields(c) ==
    IF \A k \in 1..Len(c) : c[k] # "." THEN << c >>
    ELSE << SubSeq(c, 1, strchr(c, ".")) >> \o Fields(Advance(c, strchr(c, ".") + 1))

\* an inet_pton that does not compare the value of a field with the largest octet
OctetOkAnyValue(f) ==
    /\ Len(f) \in 1..3
    /\ \A k \in 1..Len(f) : isdigit(f[k])
    /\ (Len(f) > 1 => f[1] # "0")

\* inet_pton accepts a field of one to three digits without a leading zero
\* whose value fits an octet
OctetOk(f) ==
    /\ Len(f) \in 1..3
    /\ \A k \in 1..Len(f) : isdigit(f[k])
    /\ (Len(f) > 1 => f[1] # "0")
    /\ DecimalValue(f) <= OCTET_MAX

\* inet_pton(AF_INET, host): ok, and the address in host order (after ntohl)
OctetsValue(fs) ==
    DecimalValue(fs[1]) * 2^(3 * OCTET_BITS) + DecimalValue(fs[2]) * 2^(2 * OCTET_BITS)
    + DecimalValue(fs[3]) * 2^OCTET_BITS + DecimalValue(fs[4])

OctetsOk(fs) == Len(fs) = 4 /\ \A k \in 1..4 : OctetOk(fs[k])

AddressOf(fs) ==
    IF OctetsOk(fs) THEN [ok |-> TRUE, addr |-> OctetsValue(fs)] ELSE [ok |-> FALSE, addr |-> 0]

inet_pton(host) == AddressOf(Fields(host))

\* mask = ~((1 << (CIDR_MAX_LENGTH - prefix_len)) - 1); htonl and ntohl cancel
\* out, so the mask is applied to the address in host order
Mask(prefix_len, ub) == BitNot((ShiftOne(CIDR_MAX_LENGTH - prefix_len, ub) - 1) % WORD)

\* parse_cidr of a token that has its prefix: rc 0 and the range, rc 2 for an
\* invalid address, rc 3 for an invalid prefix length
\* range->min = ip & mask; range->max = ip | ~mask
MaskedRange(addr, mask) ==
    [rc |-> 0, min |-> BitAnd(addr, mask), max |-> BitOr(addr, BitNot(mask))]

\* a parse_cidr that takes a prefix length beyond the longest for the longest
CheckedRangeClamped(ip, prefix_len, ub) ==
    IF ~ip.ok THEN [rc |-> 2, min |-> 0, max |-> 0]
    ELSE MaskedRange(ip.addr, Mask(IF prefix_len > CIDR_MAX_LENGTH THEN CIDR_MAX_LENGTH
                                   ELSE prefix_len, ub))

\* the checks of parse_cidr on the converted address and the prefix length
CheckedRange(ip, prefix_len, ub) ==
    IF ~ip.ok THEN [rc |-> 2, min |-> 0, max |-> 0]
    ELSE IF prefix_len < 0 \/ prefix_len > CIDR_MAX_LENGTH
         THEN [rc |-> 3, min |-> 0, max |-> 0]
         ELSE MaskedRange(ip.addr, Mask(prefix_len, ub))

SplitCidr(cidr, slash, ub) ==
    CheckedRange(inet_pton(SubSeq(cidr, 1, slash)), DecimalValue(Advance(cidr, slash + 1)), ub)

parse_cidr(cidr, ub) == SplitCidr(cidr, strchr(cidr, "/"), ub)

(***************************************************************************)
(* Tokens                                                                  *)
(***************************************************************************)
is_host(cidr) == strchr(cidr, "/") < 0

\* add_prefix that appends a prefix length one bit short, "/31" in the source
add_prefix_short(cidr) == cidr \o << "/" >> \o DecimalText(IP_BITS - 1)

\* appends the full prefix length, "/32" in the source
add_prefix(cidr) == cidr \o << "/" >> \o DecimalText(IP_BITS)

ensure_prefix(cidr) == IF is_host(cidr) THEN add_prefix(cidr) ELSE cidr

maybe_broken_cidr(content, cidr_end) ==
    IF isspace(CharAt(content, cidr_end)) THEN FALSE
    ELSE ~ ( /\ CharAt(content, cidr_end - 3) = "/"
             /\ isdigit(CharAt(content, cidr_end - 2))
             /\ isdigit(CharAt(content, cidr_end - 1)) )

\* the CIDRToken that get_token fills from the match m
CIDRToken(content, m) ==
    IF ~m.found
    THEN [found |-> FALSE, start |-> 0, end |-> 0, maybe_broken |-> FALSE, cidr |-> << >>]
    ELSE [found |-> TRUE,
          start |-> m.so,
          end |-> m.eo5,
          maybe_broken |-> maybe_broken_cidr(content, m.eo1),
          cidr |-> ensure_prefix(SubSeq(content, m.so + 1, m.eo1))]

get_token(content) == CIDRToken(content, regexec(content))

(***************************************************************************)
(* ipRangeList                                                             *)
(***************************************************************************)
MAX_BUFFER_CAPACITY == (BUFFER_SIZE + (CIDR_MIN_LENGTH + 1) - 1) \div (CIDR_MIN_LENGTH + 1)

\* sizeof(ipRange): two struct in_addr of four bytes each
IP_RANGE_SIZE == 8

\* sizeof(ipRange *), which the build decides: four bytes where addresses are
\* 32 bits wide (the OpenWrt target of toolchains/openwrt), eight on LP64
PointerSizes == {4, IP_RANGE_SIZE}

VARIABLE pointer_size    \* the build's sizeof(ipRange *)

\* the ipRange elements that fit the block malloc and realloc are asked for
malloc_cidrs(size) == (pointer_size * size) \div IP_RANGE_SIZE

realloc_cidrs(length) == (2 * length * pointer_size) \div IP_RANGE_SIZE

\* cidrs[0 .. length - 1] is the sequence cidrs, length its Len; slots is the
\* number of elements the block behind the pointer cidrs has room for
getIpRangeList(size) ==
    [cidrs |-> << >>, capacity |-> size, slots |-> malloc_cidrs(size)]

\* data->length > 0 && data->length % data->capacity == 0
is_full(data) == Len(data.cidrs) > 0 /\ Len(data.cidrs) % data.capacity = 0

\* the realloc and the doubling if the list is full, then the store at
\* cidrs[length], made whether or not the block reaches that far
appendIpRange(data, range) ==
    [cidrs |-> Append(data.cidrs, range),
     capacity |-> IF is_full(data) THEN 2 * data.capacity ELSE data.capacity,
     slots |-> IF is_full(data) THEN realloc_cidrs(Len(data.cidrs)) ELSE data.slots]

(***************************************************************************)
(* parse_content                                                           *)
(***************************************************************************)
\* parsed_length >= content_length - CIDR_MIN_LENGTH in size_t arithmetic: the
\* difference wraps to a huge value when content_length < CIDR_MIN_LENGTH
is_last_token(parsed_length, content_length) ==
    content_length >= CIDR_MIN_LENGTH /\ parsed_length >= content_length - CIDR_MIN_LENGTH

\* if (parse_cidr(token.cidr, &range) == 0) appendIpRange(range_list, &range)
append_parsed(range_list, parsed) ==
    IF parsed.rc = 0
    THEN appendIpRange(range_list, [min |-> parsed.min, max |-> parsed.max])
    ELSE range_list

RECURSIVE parse_loop(_, _, _, _, _, _)
\* the body of the loop for the token that get_token returned
parse_token(content, parsed_length, content_length, range_list, require_full_cidr, ub, token) ==
    IF ~token.found
    THEN [parsed_length |-> parsed_length, range_list |-> range_list]
    ELSE IF /\ require_full_cidr
            /\ is_last_token(parsed_length + token.end, content_length)
            /\ token.maybe_broken
         THEN [parsed_length |-> parsed_length + token.end + token.start - token.end,
               range_list |-> range_list]
         ELSE parse_loop(Advance(content, token.end), parsed_length + token.end,
                         content_length,
                         append_parsed(range_list, parse_cidr(token.cidr, ub)),
                         require_full_cidr, ub)

\* the while loop of parse_content; content is the advancing pointer
parse_loop(content, parsed_length, content_length, range_list, require_full_cidr, ub) ==
    parse_token(content, parsed_length, content_length, range_list, require_full_cidr, ub,
                get_token(content))

parse_content(content, range_list, require_full_cidr, ub) ==
    parse_loop(content, 0, Len(content), range_list, require_full_cidr, ub)

(***************************************************************************)
(* read_from_stream                                                        *)
(***************************************************************************)
\* the buffer after move_reminder_to_start, and the length it returns
move_reminder_to_start(buffer, reminder_start_pos) ==
    IF reminder_start_pos >= Len(buffer)
    THEN [buffer |-> << >>, length |-> 0]
    ELSE [buffer |-> Advance(buffer, reminder_start_pos),
          length |-> Len(buffer) - reminder_start_pos]

\* a fread that is asked for all the bytes left in the buffer, the last one too
fread_whole_buffer(stream, pos, reminder_size) ==
    LET want == BUFFER_SIZE - reminder_size
        left == Len(stream) - pos
    IN  IF want < left THEN want ELSE left

\* fread(buffer + reminder_size, 1, BUFFER_SIZE - reminder_size - 1, stream):
\* the number of bytes a blocking stream read delivers
fread(stream, pos, reminder_size) ==
    LET want == BUFFER_SIZE - reminder_size - 1
        left == Len(stream) - pos
    IN  IF want < left THEN want ELSE left

\* char buffer[BUFFER_SIZE] = {0}: the array itself, byte by byte
ZeroedBuffer == [k \in 1..BUFFER_SIZE |-> "NUL"]

\* strlen of the array; without a NUL in the array it runs past its end
strlen(bytes) ==
    IF \A k \in 1..BUFFER_SIZE : bytes[k] # "NUL" THEN BUFFER_SIZE
    ELSE (CHOOSE k \in 1..BUFFER_SIZE :
              bytes[k] = "NUL" /\ \A j \in 1..(k - 1) : bytes[j] # "NUL") - 1

\* the array after fread has stored n bytes of the stream at buffer + reminder_size
StoredBytes(bytes, reminder_size, stream, pos, n) ==
    [k \in 1..BUFFER_SIZE |->
        IF k > reminder_size /\ k <= reminder_size + n
        THEN stream[pos + k - reminder_size] ELSE bytes[k]]

\* the array after the memmove and the memset of move_reminder_to_start
MovedBytes(bytes, reminder_start_pos, buffer_size) ==
    IF reminder_start_pos >= buffer_size
    THEN [k \in 1..BUFFER_SIZE |-> IF k <= buffer_size THEN "NUL" ELSE bytes[k]]
    ELSE [k \in 1..BUFFER_SIZE |->
             IF k <= buffer_size - reminder_start_pos THEN bytes[k + reminder_start_pos]
             ELSE IF k <= buffer_size THEN "NUL" ELSE bytes[k]]

(***************************************************************************)
(* Sorting and merging                                                     *)
(***************************************************************************)
compare_ip_ranges(a, b) ==
    IF a.min < b.min THEN -1
    ELSE IF a.min > b.min THEN 1
    ELSE IF a.max < b.max THEN -1
    ELSE IF a.max > b.max THEN 1
    ELSE 0

\* qsort(ranges, count, sizeof(ipRange), compare_ip_ranges): the ascending
\* arrangement of the array (elements that compare equal are identical)
RECURSIVE qsort(_)
qsort(list) ==
    IF list = << >> THEN << >>
    ELSE LET least == CHOOSE k \in 1..Len(list) :
                          \A j \in 1..Len(list) : compare_ip_ranges(list[k], list[j]) <= 0
             rest == [j \in 1..(Len(list) - 1) |-> IF j < least THEN list[j] ELSE list[j + 1]]
         IN  << list[least] >> \o qsort(rest)

\* a test that takes only overlapping ranges together, not adjacent ones
TouchesOverlapOnly(current, r) == current.max >= r.min

\* (current.max_ip.s_addr + 1) >= ranges[i].min_ip.s_addr in uint32_t arithmetic
Touches(current, r) == (current.max + 1) % WORD >= r.min

(***************************************************************************)
(* Summarizing                                                             *)
(***************************************************************************)
\* range->max_ip.s_addr - range->min_ip.s_addr + 1, computed in uint32_t
get_max_cidr_count(range) == (range.max - range.min + 1) % WORD

\* a bit length without the + 1: (int)log2(x)
bit_length_floor(x) ==
    IF x = 0 THEN 0
    ELSE CHOOSE k \in 0..IP_BITS : 2^k <= x /\ x < 2^(k + 1)

\* x == 0 ? 0 : (int)log2(x) + 1
bit_length(x) ==
    IF x = 0 THEN 0
    ELSE (CHOOSE k \in 0..IP_BITS : 2^k <= x /\ x < 2^(k + 1)) + 1

\* a count that ignores the low bits of the number
count_righthand_zero_bits_ignored(number, bits) == bits

count_righthand_zero_bits(number, bits) ==
    IF number = 0 THEN bits
    ELSE LET n == bit_length(BitAnd(BitNot(number), (number - 1) % WORD))
         IN  IF bits < n THEN bits ELSE n

\* a summarizer that writes one block per address
BlockBitsOfHost(first, last) == 0

\* fmin(count_righthand_zero_bits(first, IP_BITS), bit_length(last - first + 1) - 1),
\* the second argument being a uint32_t
BlockBits(first, last) ==
    LET zeros == count_righthand_zero_bits(first, IP_BITS)
        span == (bit_length((last - first + 1) % WORD) - 1) % WORD
    IN  IF zeros < span THEN zeros ELSE span

(***************************************************************************)
(* Printing                                                                *)
(***************************************************************************)
\* "%d" of an octet: up to three digits, without leading zeros
OctetText(n) ==
    IF n < 10 THEN << DigitChar(n) >>
    ELSE IF n < 100 THEN << DigitChar(n \div 10), DigitChar(n % 10) >>
    ELSE << DigitChar(n \div 100), DigitChar((n \div 10) % 10), DigitChar(n % 10) >>

\* the octet of addr that stands at place k of the dotted form, k = 3 first
OctetAt(addr, k) == (addr \div 2^(k * OCTET_BITS)) % 2^OCTET_BITS

inet_ntoa(addr) ==
    OctetText(OctetAt(addr, 3)) \o << "." >> \o OctetText(OctetAt(addr, 2)) \o << "." >>
    \o OctetText(OctetAt(addr, 1)) \o << "." >> \o OctetText(OctetAt(addr, 0))

\* snprintf(..., "%s/%d", inet_ntoa(addr), IP_BITS - nbits)
CidrText(record) == inet_ntoa(record.addr) \o << "/" >> \o DecimalText(record.prefix)

\* printf("%s\n", cidr_records[i]) for every record, in turn
RECURSIVE PrintedLines(_)
PrintedLines(records) ==
    IF records = << >> THEN << >>
    ELSE CidrText(Head(records)) \o << "\n" >> \o PrintedLines(Tail(records))

(***************************************************************************)
(* The program: read_from_stream, then qsort and merge_ip_ranges, then     *)
(* to_cidr with summarize_address_range, as merge_cidr chains them.        *)
(***************************************************************************)
VARIABLES
    ub,              \* the build's outcome of a shift by the width of int
    pc,              \* where the program is
    stream,          \* the bytes of the input stream
    pos,             \* how many of them have been read
    buffer,          \* buffer[BUFFER_SIZE], as the C string it holds
    memory,          \* buffer[BUFFER_SIZE], as the array of its bytes
    reminder_size,
    ip_range_list,   \* the ipRangeList read_from_stream returns
    ranges,          \* the sorted array given to merge_ip_ranges
    i,               \* the loop index of merge_ip_ranges
    current,
    result,          \* result[0 .. result_count - 1]
    range_index,     \* the loop index of to_cidr
    first,           \* first, count of summarize_address_range
    count,
    cidr_records,    \* the records written so far, across ranges
    earlier,         \* the records printed by the runs before this one
    given            \* the ranges handed to appendIpRange when the list is run alone

vars == << ub, pointer_size, given, pc, stream, pos, buffer, memory, reminder_size, ip_range_list, ranges, i,
           current, result, range_index, first, count, cidr_records, earlier >>

readerVars == << stream, pos, buffer, memory, reminder_size, ip_range_list >>

mergeVars == << ranges, i, current, result >>

cidrVars == << range_index, first, count, cidr_records >>

NoRange == [min |-> 0, max |-> 0]

\* how many times the program is run again on its output
MaxReruns == 1

\* ---- read_from_stream -------------------------------------------------
\* one turn of the while loop: fread delivers bytes, parse_content scans the
\* buffer, move_reminder_to_start keeps what was not parsed
ReadChunk ==
    /\ pc = "read"
    /\ fread(stream, pos, reminder_size) > 0
    /\ \E n \in {fread(stream, pos, reminder_size)} :
       \E filled \in {SubSeq(buffer, 1, reminder_size) \o SubSeq(stream, pos + 1, pos + n)} :
       \E parsed \in {parse_content(filled, ip_range_list, TRUE, ub)} :
       \E moved \in {move_reminder_to_start(filled, parsed.parsed_length)} :
           /\ pos' = pos + n
           /\ buffer' = moved.buffer
           /\ reminder_size' = moved.length
           /\ ip_range_list' = parsed.range_list
           /\ \E stored \in {StoredBytes(memory, reminder_size, stream, pos, n)} :
                  memory' = MovedBytes(stored, parsed.parsed_length, strlen(stored))
    /\ UNCHANGED << ub, pointer_size, given, earlier, pc, stream, mergeVars, cidrVars >>

\* fread returns 0: the loop ends, and what is left is parsed from
\* buffer + reminder_size without asking for a full CIDR
ReadEnd ==
    /\ pc = "read"
    /\ fread(stream, pos, reminder_size) = 0
    /\ ip_range_list' =
           IF reminder_size # 0
           THEN parse_content(Advance(buffer, reminder_size), ip_range_list, FALSE, ub).range_list
           ELSE ip_range_list
    /\ pc' = "sort"
    /\ UNCHANGED << ub, pointer_size, given, earlier, stream, pos, buffer, memory, reminder_size, mergeVars, cidrVars >>

\* ---- merge_cidr: qsort --------------------------------------------------
Sort ==
    /\ pc = "sort"
    /\ ranges' = qsort(ip_range_list.cidrs)
    /\ pc' = "merge"
    /\ UNCHANGED << ub, pointer_size, given, earlier, readerVars, i, current, result, cidrVars >>

\* ---- merge_ip_ranges ----------------------------------------------------
\* merge_ip_ranges without the return for count == 0: ranges[0] is taken
MergeEmptyTakesFirst ==
    /\ pc = "merge"
    /\ Len(ranges) = 0
    /\ result' = << NoRange >>
    /\ pc' = "to_cidr"
    /\ UNCHANGED << ub, pointer_size, given, earlier, readerVars, ranges, i, current, cidrVars >>

\* count == 0: nothing to merge
MergeEmpty ==
    /\ pc = "merge"
    /\ Len(ranges) = 0
    /\ result' = << >>
    /\ pc' = "to_cidr"
    /\ UNCHANGED << ub, pointer_size, given, earlier, readerVars, ranges, i, current, cidrVars >>

\* a merger without the return for a first range that ends at ALL_ONES
MergeFirstGoesOn ==
    /\ pc = "merge"
    /\ Len(ranges) > 0
    /\ current' = ranges[1]
    /\ i' = 1
    /\ result' = << >>
    /\ pc' = "scan"
    /\ UNCHANGED << ub, pointer_size, given, earlier, readerVars, ranges, cidrVars >>

\* current = ranges[0]; a first range that ends at ALL_ONES is the whole result
MergeFirst ==
    /\ pc = "merge"
    /\ Len(ranges) > 0
    /\ current' = ranges[1]
    /\ i' = 1
    /\ IF ranges[1].max = ALL_ONES
       THEN result' = << ranges[1] >> /\ pc' = "to_cidr"
       ELSE result' = << >> /\ pc' = "scan"
    /\ UNCHANGED << ub, pointer_size, given, earlier, readerVars, ranges, cidrVars >>

\* a merger that keeps a gap before a range that ends at ALL_ONES: current is
\* written, and then that range
MergeCloseKeepsGap ==
    /\ pc = "scan"
    /\ i < Len(ranges)
    /\ ranges[i + 1].max = ALL_ONES
    /\ result' = IF Touches(current, ranges[i + 1])
                 THEN Append(result, [min |-> current.min, max |-> ALL_ONES])
                 ELSE Append(Append(result, current), ranges[i + 1])
    /\ pc' = "to_cidr"
    /\ UNCHANGED << ub, pointer_size, given, earlier, readerVars, ranges, i, current, cidrVars >>

\* ranges[i] ends at ALL_ONES: the closing range is written and the scan ends
MergeClose ==
    /\ pc = "scan"
    /\ i < Len(ranges)
    /\ ranges[i + 1].max = ALL_ONES
    /\ result' = Append(result, [min |-> current.min, max |-> ALL_ONES])
    /\ pc' = "to_cidr"
    /\ UNCHANGED << ub, pointer_size, given, earlier, readerVars, ranges, i, current, cidrVars >>

\* ranges[i] overlaps current or follows it directly: current is widened
MergeExtend ==
    /\ pc = "scan"
    /\ i < Len(ranges)
    /\ ranges[i + 1].max # ALL_ONES
    /\ Touches(current, ranges[i + 1])
    /\ current' = IF current.max < ranges[i + 1].max
                  THEN [current EXCEPT !.max = ranges[i + 1].max]
                  ELSE current
    /\ i' = i + 1
    /\ UNCHANGED << ub, pointer_size, given, earlier, pc, readerVars, ranges, result, cidrVars >>

\* a merger that puts each finished range in front of the earlier ones
MergeEmitInFront ==
    /\ pc = "scan"
    /\ i < Len(ranges)
    /\ ranges[i + 1].max # ALL_ONES
    /\ ~Touches(current, ranges[i + 1])
    /\ result' = << current >> \o result
    /\ current' = ranges[i + 1]
    /\ i' = i + 1
    /\ UNCHANGED << ub, pointer_size, given, earlier, pc, readerVars, ranges, cidrVars >>

\* ranges[i] starts after a gap: current is written and ranges[i] becomes current
MergeEmit ==
    /\ pc = "scan"
    /\ i < Len(ranges)
    /\ ranges[i + 1].max # ALL_ONES
    /\ ~Touches(current, ranges[i + 1])
    /\ result' = Append(result, current)
    /\ current' = ranges[i + 1]
    /\ i' = i + 1
    /\ UNCHANGED << ub, pointer_size, given, earlier, pc, readerVars, ranges, cidrVars >>

\* an end of the loop that writes current only into an empty result
MergeLastOnlyWhenEmpty ==
    /\ pc = "scan"
    /\ i >= Len(ranges)
    /\ result' = IF Len(result) # 0 THEN result ELSE Append(result, current)
    /\ pc' = "to_cidr"
    /\ UNCHANGED << ub, pointer_size, given, earlier, readerVars, ranges, i, current, cidrVars >>

\* after the loop: current is written unless the last record has its max
MergeLast ==
    /\ pc = "scan"
    /\ i >= Len(ranges)
    /\ result' = IF Len(result) # 0
                 THEN IF result[Len(result)].max # current.max
                      THEN Append(result, current) ELSE result
                 ELSE Append(result, current)
    /\ pc' = "to_cidr"
    /\ UNCHANGED << ub, pointer_size, given, earlier, readerVars, ranges, i, current, cidrVars >>

\* ---- to_cidr and summarize_address_range --------------------------------
ToCidr ==
    /\ pc = "to_cidr"
    /\ cidr_records' = << >>
    /\ range_index' = 0
    /\ pc' = "next_range"
    /\ UNCHANGED << ub, pointer_size, given, earlier, readerVars, mergeVars, first, count >>

\* the second loop of to_cidr enters summarize_address_range for ranges[i]
SummarizeBegin ==
    /\ pc = "next_range"
    /\ range_index < Len(result)
    /\ first' = result[range_index + 1].min
    /\ count' = 0
    /\ pc' = "summarize"
    /\ UNCHANGED << ub, pointer_size, given, earlier, readerVars, mergeVars, range_index, cidr_records >>

\* the condition of the while loop
SummarizeMore ==
    /\ first <= result[range_index + 1].max
    /\ count < get_max_cidr_count(result[range_index + 1])

\* a turn of the while loop without the break at the top of the address space
SummarizeStepNoBreak ==
    /\ pc = "summarize"
    /\ SummarizeMore
    /\ LET nbits == BlockBits(first, result[range_index + 1].max)
           next == (first + ShiftOne(nbits, ub)) % WORD
       IN  /\ cidr_records' = Append(cidr_records, [addr |-> first, prefix |-> IP_BITS - nbits])
           /\ count' = count + 1
           /\ first' = next
           /\ pc' = "summarize"
    /\ UNCHANGED << ub, pointer_size, given, earlier, readerVars, mergeVars, range_index >>

\* one turn of the while loop: a record is written and first moves on
SummarizeStep ==
    /\ pc = "summarize"
    /\ SummarizeMore
    /\ LET nbits == BlockBits(first, result[range_index + 1].max)
           next == (first + ShiftOne(nbits, ub)) % WORD
       IN  /\ cidr_records' = Append(cidr_records, [addr |-> first, prefix |-> IP_BITS - nbits])
           /\ count' = count + 1
           /\ first' = next
           /\ pc' = IF (next - 1) % WORD = ALL_ONES THEN "summarized" ELSE "summarize"
    /\ UNCHANGED << ub, pointer_size, given, earlier, readerVars, mergeVars, range_index >>

\* summarize_address_range returns count; to_cidr gives up when it is 0
SummarizeReturn ==
    /\ \/ pc = "summarized"
       \/ pc = "summarize" /\ ~SummarizeMore
    /\ IF count = 0
       THEN cidr_records' = << >> /\ pc' = "done" /\ range_index' = range_index
       ELSE cidr_records' = cidr_records /\ pc' = "next_range" /\ range_index' = range_index + 1
    /\ UNCHANGED << ub, pointer_size, given, earlier, readerVars, mergeVars, first, count >>

\* to_cidr returns the records, which main prints one per line
ToCidrReturn ==
    /\ pc = "next_range"
    /\ range_index >= Len(result)
    /\ pc' = "done"
    /\ UNCHANGED << ub, pointer_size, given, earlier, readerVars, mergeVars, cidrVars >>

\* the program is run again, on the lines it has printed
Rerun ==
    /\ pc = "done"
    /\ Len(earlier) < MaxReruns
    /\ earlier' = Append(earlier, cidr_records)
    /\ stream' = PrintedLines(cidr_records)
    /\ pos' = 0
    /\ buffer' = << >>
    /\ memory' = ZeroedBuffer
    /\ reminder_size' = 0
    /\ ip_range_list' = getIpRangeList(MAX_BUFFER_CAPACITY)
    /\ ranges' = << >> /\ i' = 0 /\ current' = NoRange /\ result' = << >>
    /\ range_index' = 0 /\ first' = 0 /\ count' = 0 /\ cidr_records' = << >>
    /\ pc' = "read"
    /\ UNCHANGED << ub, pointer_size, given >>

(***************************************************************************)
(* Inputs                                                                  *)
(***************************************************************************)
MaxTokens == 3

MaxPieces == 3

MaxRanges == 3

EdgeSpan == 3

TopSpan == 2

\* "a.b.c.d" and "a.b.c.d/p" from one-digit octets and the digits of a prefix
Quad(a, b, c, d) == << a, ".", b, ".", c, ".", d >>

Cidr(a, b, c, d, p) == Quad(a, b, c, d) \o << "/" >> \o p

Spaces(n) == [k \in 1..n |-> " "]

Noise(n) == [k \in 1..n |-> "x"]

RECURSIVE Concat(_)
Concat(pieces) ==
    IF pieces = << >> THEN << >> ELSE Head(pieces) \o Concat(Tail(pieces))

\* the concatenations of at most n pieces
Streams(pieces, n) ==
    { Concat(ps) : ps \in UNION { [1..k -> pieces] : k \in 0..n } }

\* tokens of the whole pipeline: blocks that merge, blocks apart, the two
\* halves and the whole of the address space, a host
PipelineTokens ==
    { Cidr("0", "0", "0", "0", << "2" >>),
      Cidr("0", "1", "0", "0", << "2" >>),
      Cidr("0", "1", "0", "0", << "3" >>),
      Cidr("1", "1", "0", "0", << "2" >>),
      Cidr("0", "0", "0", "0", << "1" >>),
      Cidr("1", "0", "0", "0", << "1" >>),
      Cidr("0", "0", "0", "0", << "0" >>),
      Quad("1", "0", "0", "1") }

\* lines of one token each, the last one with or without its newline
PipelineStreams ==
    { lines \o last : lines \in Streams({ t \o << "\n" >> : t \in PipelineTokens }, MaxTokens - 1),
                      last \in { t \o nl : t \in PipelineTokens, nl \in { << >>, << "\n" >> } }
                               \cup { << >> } }

\* lines of one token each out of a set of tokens, the last one with or
\* without its newline
TokenLines(tokens) ==
    { lines \o last : lines \in Streams({ t \o << "\n" >> : t \in tokens }, MaxTokens - 1),
                      last \in { t \o nl : t \in tokens, nl \in { << >>, << "\n" >> } }
                               \cup { << >> } }

\* tokens of the runs that are fed their own output: blocks apart, blocks
\* that follow one another up to the top of the address space, a host, and
\* the whole address space
RerunTokens ==
    { Cidr("0", "0", "0", "0", << "2" >>),
      Cidr("0", "1", "0", "0", << "3" >>),
      Cidr("1", "0", "0", "0", << "2" >>),
      Cidr("1", "1", "0", "0", << "2" >>),
      Cidr("0", "0", "0", "0", << "0" >>),
      Quad("1", "0", "0", "1") }

RerunStreams == TokenLines(RerunTokens)

\* tokens of the runs that are compared with a run on the same tokens in
\* another order, with a token repeated, or with a contained token added
VariantTokens ==
    { Cidr("0", "0", "0", "0", << "1" >>),
      Cidr("0", "1", "0", "0", << "3" >>),
      Cidr("1", "1", "0", "0", << "2" >>),
      Quad("1", "0", "0", "1") }

VariantStreams == TokenLines(VariantTokens)

\* the lines of a text, without their newlines
RECURSIVE SplitLines(_)
SplitLines(text) ==
    IF text = << >> THEN << >>
    ELSE IF \A k \in 1..Len(text) : text[k] # "\n" THEN << text >>
    ELSE << SubSeq(text, 1, strchr(text, "\n")) >>
         \o SplitLines(Advance(text, strchr(text, "\n") + 1))

\* the text of the lines, the last one with its newline or without
RECURSIVE JoinLines(_, _)
JoinLines(lines, newline_at_end) ==
    IF lines = << >> THEN << >>
    ELSE IF Len(lines) = 1
         THEN Head(lines) \o (IF newline_at_end THEN << "\n" >> ELSE << >>)
         ELSE Head(lines) \o << "\n" >> \o JoinLines(Tail(lines), newline_at_end)

\* the lines with those at places j and k exchanged
Exchanged(lines, j, k) ==
    [n \in 1..Len(lines) |-> IF n = j THEN lines[k] ELSE IF n = k THEN lines[j] ELSE lines[n]]

\* the range of token t lies within the range of token u
Contained(t, u, outcome) ==
    /\ parse_cidr(ensure_prefix(t), outcome).rc = 0
    /\ parse_cidr(ensure_prefix(u), outcome).rc = 0
    /\ parse_cidr(ensure_prefix(u), outcome).min <= parse_cidr(ensure_prefix(t), outcome).min
    /\ parse_cidr(ensure_prefix(t), outcome).max <= parse_cidr(ensure_prefix(u), outcome).max

\* the same tokens in another order, with one of them repeated, or with a
\* token added whose range lies within the range of one of them
VariantLines(lines, outcome) ==
    { Exchanged(lines, j, k) : j, k \in 1..Len(lines) }
    \cup { << lines[k] >> \o lines : k \in 1..Len(lines) }
    \cup { << t >> \o lines :
               t \in { v \in VariantTokens : \E k \in 1..Len(lines) : Contained(v, lines[k], outcome) } }

\* pieces of the reader's streams: tokens with a one-digit prefix, without a
\* prefix and with a two-digit prefix, separators, noise, and runs of noise and
\* of blanks that fill a buffer
ReaderPieces ==
    { Cidr("0", "0", "0", "0", << "2" >>),
      Quad("1", "0", "0", "1"),
      Cidr("1", "0", "0", "0", << "0", "4" >>),
      << " " >>, << "\n" >>, << "\t", "\r", "\f", "VT" >>, Spaces(3), << "x" >>,
      Noise(BUFFER_SIZE - 1), Spaces(2 * BUFFER_SIZE) }

ReaderStreams == Streams(ReaderPieces, MaxPieces)

\* texts of the octets of a token: every value of an octet and the one beyond
OctetTexts == { DecimalText(n) : n \in 0..(OCTET_MAX + 1) }

\* texts of the prefix of a token: every prefix length, those just beyond the
\* longest, the largest of two digits, and one written with a leading zero
PrefixTexts ==
    { DecimalText(n) : n \in 0..(IP_BITS + 2) } \cup { << "9", "9" >>, << "0", "4" >> }

\* the dotted text of four octet texts
Dotted(q) == q[1] \o << "." >> \o q[2] \o << "." >> \o q[3] \o << "." >> \o q[4]

\* the tokens the pattern matches as a whole, with and without a prefix
TokenTexts ==
    { Dotted(q) : q \in OctetTexts \X OctetTexts \X OctetTexts \X OctetTexts }
    \cup { Dotted(q) \o << "/" >> \o p :
               q \in OctetTexts \X OctetTexts \X OctetTexts \X OctetTexts, p \in PrefixTexts }

\* the valid tokens before and after the token of a stream
LeadToken == Quad("0", "0", "0", "1")

TrailToken == Cidr("1", "0", "0", "0", << "1" >>)

\* three lines: a token between two valid ones
TokenStreams ==
    { LeadToken \o << "\n" >> \o t \o << "\n" >> \o TrailToken \o << "\n" >> : t \in TokenTexts }

\* pieces of streams with few or no valid tokens: three lines of a valid
\* token, a token with a prefix beyond the longest, a newline, a run of every
\* whitespace character, noise, and a page of blanks longer than the buffer
QuietPieces ==
    { Cidr("0", "0", "0", "0", << "2" >>) \o << "\n" >>,
      Quad("1", "0", "0", "1") \o << "\n" >>,
      Quad("1", "1", "1", "1") \o << "\n" >>,
      Cidr("1", "0", "0", "0", << "9", "9" >>),
      << "\n" >>, << " ", "\t", "\r", "\f", "VT" >>, << "x" >>,
      Spaces(BUFFER_SIZE + 3) }

QuietStreams == Streams(QuietPieces, MaxPieces)

\* addresses near both ends of the address space
EdgeAddrs == { a \in 0..ALL_ONES : a < EdgeSpan \/ a > ALL_ONES - TopSpan }

EdgeRanges == { r \in [min : EdgeAddrs, max : EdgeAddrs] : r.min <= r.max }

AllRanges == { r \in [min : 0..ALL_ONES, max : 0..ALL_ONES] : r.min <= r.max }

\* the arrays of at most n ranges, in descending order
RECURSIVE DescendingArrays(_)
DescendingArrays(n) ==
    IF n = 0 THEN { << >> }
    ELSE { << >> } \cup
         UNION { { << r >> \o l : l \in { t \in DescendingArrays(n - 1) :
                                             t = << >> \/ compare_ip_ranges(r, t[1]) >= 0 } }
                 : r \in EdgeRanges }

RangeArrays == DescendingArrays(MaxRanges)

(***************************************************************************)
(* Specifications                                                          *)
(***************************************************************************)
Idle ==
    /\ ranges = << >> /\ i = 0 /\ current = NoRange /\ result = << >>
    /\ range_index = 0 /\ first = 0 /\ count = 0 /\ cidr_records = << >>
    /\ earlier = << >>

\* the program as a whole, on a stream
InitStream(streams) ==
    /\ ub \in ShiftOutcomes
    /\ pointer_size \in PointerSizes
    /\ given = << >>
    /\ pc = "read"
    /\ stream \in streams
    /\ pos = 0
    /\ buffer = << >>
    /\ memory = ZeroedBuffer
    /\ reminder_size = 0
    /\ ip_range_list = getIpRangeList(MAX_BUFFER_CAPACITY)
    /\ Idle

Init == InitStream(PipelineStreams)

Next ==
    \/ ReadChunk \/ ReadEnd
    \/ Sort \/ MergeEmpty \/ MergeFirst \/ MergeClose \/ MergeExtend \/ MergeEmit \/ MergeLast
    \/ ToCidr \/ SummarizeBegin \/ SummarizeStep \/ SummarizeReturn \/ ToCidrReturn

Spec == Init /\ [][Next]_vars

\* read_from_stream alone, on streams with separators of every kind and noise
InitRead == InitStream(ReaderStreams)

NextRead == ReadChunk \/ ReadEnd

SpecRead == InitRead /\ [][NextRead]_vars

\* the list read_from_stream returns after it has appended the ranges of seq
RECURSIVE AppendAll(_, _)
AppendAll(data, seq) ==
    IF seq = << >> THEN data
    ELSE AppendAll(appendIpRange(data, Head(seq)), Tail(seq))

\* qsort and merge_ip_ranges alone, on arrays of ranges
InitMerge ==
    /\ ub \in ShiftOutcomes
    /\ pointer_size \in PointerSizes
    /\ given = << >>
    /\ pc = "sort"
    /\ stream = << >> /\ pos = 0 /\ buffer = << >> /\ reminder_size = 0
    /\ memory = ZeroedBuffer
    /\ \E l \in RangeArrays :
           ip_range_list = AppendAll(getIpRangeList(MAX_BUFFER_CAPACITY), l)
    /\ Idle

NextMerge ==
    Sort \/ MergeEmpty \/ MergeFirst \/ MergeClose \/ MergeExtend \/ MergeEmit \/ MergeLast

SpecMerge == InitMerge /\ [][NextMerge]_vars

\* to_cidr and summarize_address_range alone, on one range
InitSummarize ==
    /\ ub \in ShiftOutcomes
    /\ pointer_size \in PointerSizes
    /\ given = << >>
    /\ pc = "to_cidr"
    /\ stream = << >> /\ pos = 0 /\ buffer = << >> /\ reminder_size = 0
    /\ memory = ZeroedBuffer
    /\ ip_range_list = getIpRangeList(MAX_BUFFER_CAPACITY)
    /\ ranges = << >> /\ i = 0 /\ current = NoRange
    /\ \E r \in AllRanges : result = << r >>
    /\ range_index = 0 /\ first = 0 /\ count = 0 /\ cidr_records = << >>
    /\ earlier = << >>

NextSummarize ==
    ToCidr \/ SummarizeBegin \/ SummarizeStep \/ SummarizeReturn \/ ToCidrReturn

SpecSummarize == InitSummarize /\ [][NextSummarize]_vars

\* the program, run again on what it printed
InitRerun == InitStream(RerunStreams)

NextRerun == Next \/ Rerun

SpecRerun == InitRerun /\ [][NextRerun]_vars

\* the program is run again, on a variant of the stream it has read
RunVariant ==
    /\ pc = "done"
    /\ earlier = << >>
    /\ earlier' = << cidr_records >>
    /\ \E lines \in VariantLines(SplitLines(stream), ub) :
           stream' = JoinLines(lines, stream # << >> /\ stream[Len(stream)] = "\n")
    /\ pos' = 0
    /\ buffer' = << >>
    /\ memory' = ZeroedBuffer
    /\ reminder_size' = 0
    /\ ip_range_list' = getIpRangeList(MAX_BUFFER_CAPACITY)
    /\ ranges' = << >> /\ i' = 0 /\ current' = NoRange /\ result' = << >>
    /\ range_index' = 0 /\ first' = 0 /\ count' = 0 /\ cidr_records' = << >>
    /\ pc' = "read"
    /\ UNCHANGED << ub, pointer_size, given >>

\* the program, run again on a variant of its input
InitVariant == InitStream(VariantStreams)

NextVariant == Next \/ RunVariant

SpecVariant == InitVariant /\ [][NextVariant]_vars

\* read_from_stream on a token of every shape between two valid tokens
InitToken == InitStream(TokenStreams)

SpecToken == InitToken /\ [][NextRead]_vars

\* the program as a whole, on streams with few or no valid tokens
InitQuiet == InitStream(QuietStreams)

SpecQuiet == InitQuiet /\ [][Next]_vars

\* getIpRangeList and appendIpRange alone: a list of any size, then appends
MaxSize == 3

MaxAppends == 7

ListRanges ==
    { [min |-> 0, max |-> 0], [min |-> 1, max |-> ALL_ONES - 1],
      [min |-> ALL_ONES, max |-> ALL_ONES] }

InitList ==
    /\ ub \in ShiftOutcomes
    /\ pointer_size \in PointerSizes
    /\ given = << >>
    /\ pc = "list"
    /\ stream = << >> /\ pos = 0 /\ buffer = << >> /\ reminder_size = 0
    /\ memory = ZeroedBuffer
    /\ \E size \in 1..MaxSize : ip_range_list = getIpRangeList(size)
    /\ Idle

AppendRange ==
    /\ pc = "list"
    /\ Len(given) < MaxAppends
    /\ \E range \in ListRanges :
           /\ ip_range_list' = appendIpRange(ip_range_list, range)
           /\ given' = Append(given, range)
    /\ UNCHANGED << ub, pointer_size, earlier, pc, stream, pos, buffer, memory,
                    reminder_size, mergeVars, cidrVars >>

SpecList == InitList /\ [][AppendRange]_vars

(***************************************************************************)
(* Address sets                                                            *)
(***************************************************************************)
Addresses(r) == r.min..r.max

RangesUnion(list) == UNION { Addresses(list[k]) : k \in 1..Len(list) }

BlockSize(b) == 2^(IP_BITS - b.prefix)

BlockAddresses(b) == b.addr..(b.addr + BlockSize(b) - 1)

BlocksUnion(list) == UNION { BlockAddresses(list[k]) : k \in 1..Len(list) }

\* the ranges of the tokens of a stream, every match taken as final
TokenRanges ==
    parse_content(stream, getIpRangeList(MAX_BUFFER_CAPACITY), FALSE, ub).range_list.cidrs

\* the ranges collected when the whole stream arrives in one chunk: the scan of
\* the chunk, and the scan at the end of the stream, which starts after the
\* carried bytes and so adds nothing
UnsplitRanges ==
    parse_content(stream, getIpRangeList(MAX_BUFFER_CAPACITY), TRUE, ub).range_list.cidrs

\* two blocks of one size that are the aligned halves of a block twice as large
Buddies(a, b) ==
    /\ a.prefix = b.prefix
    /\ a.prefix > 0
    /\ a.addr % (2 * BlockSize(a)) = 0
    /\ b.addr = a.addr + BlockSize(a)

\* the blocks start at r.min, follow one another without a gap and end at r.max
Tiles(blocks, r) ==
    /\ Len(blocks) >= 1
    /\ blocks[1].addr = r.min
    /\ \A k \in 1..(Len(blocks) - 1) : blocks[k + 1].addr = blocks[k].addr + BlockSize(blocks[k])
    /\ blocks[Len(blocks)].addr + BlockSize(blocks[Len(blocks)]) - 1 = r.max
    /\ \A k \in 1..Len(blocks) : BlockAddresses(blocks[k]) \subseteq Addresses(r)

(***************************************************************************)
(* Properties                                                              *)
(***************************************************************************)
\* C1: when the pipeline is done, the addresses covered by the blocks it wrote
\* are exactly the addresses of the ranges of the valid tokens of the stream.
C1_OutputCoversInput ==
    pc = "done" => BlocksUnion(cidr_records) = RangesUnion(TokenRanges)

\* C2: when read_from_stream returns, the ranges it collected over its chunk
\* reads are the ranges of reading the same stream in one unsplit chunk.
C2_SplitEqualsUnsplit ==
    pc = "sort" => ip_range_list.cidrs = UnsplitRanges

\* C3: the step taken when a read returns zero bytes scans the carried bytes
\* with truncation detection off and appends every token of them that parses.
C3_DrainEmitsCarry ==
    [][ReadEnd => ip_range_list' =
                      parse_content(SubSeq(buffer, 1, reminder_size), ip_range_list, FALSE, ub).range_list]_vars

\* C4: when read_from_stream returns, the whole stream has been read, and the
\* range of every whitespace-delimited valid token of the stream was collected.
C4_NoiseNeverStops ==
    pc = "sort" =>
        /\ pos = Len(stream)
        /\ \A k \in 1..Len(UnsplitRanges) :
               \E j \in 1..Len(ip_range_list.cidrs) : ip_range_list.cidrs[j] = UnsplitRanges[k]

\* C11: when the program has run on the lines an earlier run printed, it
\* prints the same lines again.
C11_RerunPrintsSame ==
    pc = "done" /\ earlier # << >> =>
        PrintedLines(cidr_records) = PrintedLines(earlier[Len(earlier)])

\* C5: the result of merge_ip_ranges on a sorted array is ascending with
\* result[k].max + 1 < result[k + 1].min for consecutive ranges, and only the
\* last range may end at the maximum address.
C5_MergedRangesApart ==
    pc = "to_cidr" =>
        \A k \in 1..(Len(result) - 1) :
            /\ result[k].max + 1 < result[k + 1].min
            /\ result[k].max # ALL_ONES

\* a result of two or more ranges whose last one ends at the maximum address,
\* from an array in which ranges were merged
C5_Witness ==
    /\ pc = "to_cidr"
    /\ Len(result) >= 2
    /\ Len(result) < Len(ranges)
    /\ result[Len(result)].max = ALL_ONES

\* C6: the ranges returned by qsort and merge_ip_ranges cover exactly the
\* addresses of the input ranges, also when a range that ends at the maximum
\* address follows a gap.
C6_MergeKeepsUnion ==
    pc = "to_cidr" => RangesUnion(result) = RangesUnion(ip_range_list.cidrs)

\* C7: every block written by summarize_address_range starts at a multiple of
\* its block size.
C7_BlocksAligned ==
    \A k \in 1..Len(cidr_records) : cidr_records[k].addr % BlockSize(cidr_records[k]) = 0

\* a range summarized into three or more blocks of more than one size
C7_Witness ==
    /\ pc = "done"
    /\ Len(cidr_records) >= 3
    /\ \E j, k \in 1..Len(cidr_records) : cidr_records[j].prefix < cidr_records[k].prefix

\* C8: the blocks written by summarize_address_range for a range tile it: the
\* first starts at min, each next one starts right after the one before, the
\* last ends at max, and none leaves the range.
C8_BlocksTileRange ==
    pc = "done" => Tiles(cidr_records, result[1])

\* C9: in the output of the pipeline no two blocks overlap and no two blocks
\* are the aligned halves of a block twice as large.
C9_BlocksDisjointAndMaximal ==
    pc = "done" =>
        \A j, k \in 1..Len(cidr_records) :
            j # k =>
                /\ BlockAddresses(cidr_records[j]) \cap BlockAddresses(cidr_records[k]) = {}
                /\ ~Buddies(cidr_records[j], cidr_records[k])

\* an output in which a block is followed directly by a block of another size
C9_Witness ==
    /\ pc = "done"
    /\ \E k \in 1..(Len(cidr_records) - 1) :
           /\ cidr_records[k].addr + BlockSize(cidr_records[k]) = cidr_records[k + 1].addr
           /\ cidr_records[k].prefix # cidr_records[k + 1].prefix

\* C10: the blocks written by the pipeline are in strictly ascending order of
\* start address, whatever the order of the tokens.
C10_BlocksAscending ==
    pc = "done" =>
        \A k \in 1..(Len(cidr_records) - 1) : cidr_records[k].addr < cidr_records[k + 1].addr

\* an output of blocks of two merged ranges, from tokens given in descending order
C10_Witness ==
    /\ pc = "done"
    /\ Len(result) >= 2
    /\ Len(cidr_records) >= 2
    /\ Len(ip_range_list.cidrs) >= 2
    /\ ip_range_list.cidrs[1].min > ip_range_list.cidrs[2].max + 1

\* C12: a run on the same tokens in another order, with a token repeated, or
\* with a token added whose range lies within the range of another token,
\* prints the same blocks.
C12_VariantPrintsSame ==
    pc = "done" /\ earlier # << >> => cidr_records = earlier[1]

\* the range of the 2^(IP_BITS - n) addresses that share their top n bits with addr
PrefixRange(addr, n) ==
    [min |-> addr - (addr % 2^(IP_BITS - n)),
     max |-> addr - (addr % 2^(IP_BITS - n)) + 2^(IP_BITS - n) - 1]

\* the token of a stream of SpecToken, and the ranges of the tokens around it
MiddleToken == SplitLines(stream)[2]

LeadRange == [min |-> 1, max |-> 1]

TrailRange == PrefixRange(2^(3 * OCTET_BITS), 1)

\* the host part of a token and the number its prefix reads as
HostPart(t) == IF is_host(t) THEN t ELSE SubSeq(t, 1, strchr(t, "/"))

PrefixNumber(t) == DecimalValue(Advance(t, strchr(t, "/") + 1))

\* C13: a dotted quad without a "/N" suffix is read as the range of that one
\* address: min = max = the address the quad is the text of.
C13_HostIsOneAddress ==
    pc = "sort" /\ is_host(MiddleToken) /\ inet_pton(MiddleToken).ok
    => /\ Len(ip_range_list.cidrs) = 3
       /\ ip_range_list.cidrs[2].min = ip_range_list.cidrs[2].max
       /\ inet_ntoa(ip_range_list.cidrs[2].min) = MiddleToken

C13_Witness ==
    /\ pc = "sort"
    /\ is_host(MiddleToken)
    /\ Len(ip_range_list.cidrs) = 3
    /\ ip_range_list.cidrs[2] = [min |-> ALL_ONES, max |-> ALL_ONES]

\* C14: a token A.B.C.D/N of valid octets with N from 0 to the address width
\* is read as the range from the address with its low bits cleared to the
\* address with its low bits set: 2^(width - N) addresses, starting at a
\* multiple of that number, whatever the low bits of A.B.C.D are.
C14_PrefixMasksAddress ==
    /\ pc = "sort"
    /\ ~is_host(MiddleToken)
    /\ inet_pton(HostPart(MiddleToken)).ok
    /\ PrefixNumber(MiddleToken) <= IP_BITS
    => /\ Len(ip_range_list.cidrs) = 3
       /\ ip_range_list.cidrs[2]
              = PrefixRange(inet_pton(HostPart(MiddleToken)).addr, PrefixNumber(MiddleToken))

HasBigOctet(t) ==
    \E k \in 1..Len(Fields(HostPart(t))) : DecimalValue(Fields(HostPart(t))[k]) > OCTET_MAX

\* C16: a token with an octet beyond the largest octet is refused by
\* parse_cidr with the code of an invalid address, adds no range, and the
\* tokens before and after it are still read.
C16_BadOctetSkipped ==
    pc = "sort" /\ HasBigOctet(MiddleToken)
    => /\ parse_cidr(ensure_prefix(MiddleToken), ub).rc = 2
       /\ ip_range_list.cidrs = << LeadRange, TrailRange >>

C16_Witness ==
    /\ pc = "sort"
    /\ HasBigOctet(MiddleToken)
    /\ ~is_host(MiddleToken)
    /\ PrefixNumber(MiddleToken) = IP_BITS
    /\ ip_range_list.cidrs = << LeadRange, TrailRange >>

RECURSIVE Normalized(_, _)
Normalized(text, in_space) ==
    IF text = << >> THEN << >>
    ELSE IF isspace(Head(text))
         THEN (IF in_space THEN << >> ELSE << "\n" >>) \o Normalized(Tail(text), TRUE)
         ELSE << Head(text) >> \o Normalized(Tail(text), FALSE)

\* the ranges read_from_stream collects from a text shorter than the buffer:
\* one chunk, scanned asking for full tokens, and the scan at the end of the
\* stream, which starts after the carried bytes and so adds nothing
OneChunkRanges(text) ==
    parse_content(text, getIpRangeList(MAX_BUFFER_CAPACITY), TRUE, ub).range_list.cidrs

\* C18: the ranges read from a stream of tokens and whitespace are those read
\* from the same tokens with one newline in place of every run of whitespace,
\* whatever the characters and the length of the runs.
C18_SeparatorsDoNotMatter ==
    /\ pc = "sort"
    /\ \A k \in 1..Len(stream) : stream[k] # "x"
    /\ Len(Normalized(stream, FALSE)) < BUFFER_SIZE
    => ip_range_list.cidrs = OneChunkRanges(Normalized(stream, FALSE))

\* the offset in content of the last match of a left-to-right scan when that
\* match ends where content ends with no whitespace after it, or -1
RECURSIVE AbuttingStart(_, _)
AbuttingStart(content, offset) ==
    IF ~get_token(content).found THEN -1
    ELSE IF get_token(content).end = Len(content)
         THEN (IF isspace(content[Len(content)]) THEN -1
               ELSE offset + get_token(content).start)
         ELSE AbuttingStart(Advance(content, get_token(content).end),
                            offset + get_token(content).end)

\* the bytes parse_content scans in a step that reads a chunk: the carried
\* bytes and the bytes read
ChunkContent == buffer \o SubSeq(stream, pos + 1, pos')

\* C19: in a step that reads a chunk, a last match that ends where the bytes
\* read end, with no whitespace after it, is deferred whatever its prefix: no
\* range is added for it and the carried bytes start at its first byte.
C19_LastMatchDeferred ==
    [][ pc = "read" /\ pos' > pos /\ AbuttingStart(ChunkContent, 0) >= 0
        => /\ buffer' = Advance(ChunkContent, AbuttingStart(ChunkContent, 0))
           /\ ip_range_list'.cidrs
                  = parse_content(SubSeq(ChunkContent, 1, AbuttingStart(ChunkContent, 0)),
                                  ip_range_list, FALSE, ub).range_list.cidrs ]_vars

\* the C string the array holds
CString(bytes) == [k \in 1..strlen(bytes) |-> bytes[k]]

C21_WholeSpaceOneBlock ==
    pc = "done" /\ stream = Cidr("0", "0", "0", "0", << "0" >>) \o << "\n" >>
    => /\ ip_range_list.cidrs = << [min |-> 0, max |-> ALL_ONES] >>
       /\ cidr_records = << [addr |-> 0, prefix |-> 0] >>
       /\ PrintedLines(cidr_records) = Cidr("0", "0", "0", "0", << "0" >>) \o << "\n" >>

C23_SuccessorNeverWraps ==
    pc = "scan"
    => /\ current.max < ALL_ONES
       /\ (current.max + 1) % WORD = current.max + 1

C23_Witness ==
    /\ pc = "scan"
    /\ i < Len(ranges)
    /\ ranges[i + 1].max # ALL_ONES
    /\ current.max = ALL_ONES - 1
    /\ current.max > ranges[1].max

\* the scan of a non-empty array has ended and no range ends at the largest address
ScanRanOut ==
    /\ pc = "to_cidr"
    /\ ranges # << >>
    /\ \A k \in 1..Len(ranges) : ranges[k].max # ALL_ONES

\* C24: when the scan runs out of ranges without meeting one that ends at the
\* largest address, the last value of current is in the result exactly once,
\* as its last range.
C24_CurrentEmittedOnce ==
    ScanRanOut
    => /\ result # << >>
       /\ result[Len(result)] = current
       /\ \A k \in 1..(Len(result) - 1) : result[k] # current

C24_Witness ==
    /\ ScanRanOut
    /\ Len(result) >= 2
    /\ result[Len(result)] = current
    /\ current # ranges[Len(ranges)]

\* the one range that is summarized ends at the largest address and starts above 0
TopRange == Len(result) = 1 /\ result[1].max = ALL_ONES /\ result[1].min > 0

\* C25: for a range that starts above 0 and ends at the largest address, the
\* block that reaches the largest address is the last one written: when first
\* has wrapped to 0 the loop is left, no block follows, and the blocks written
\* tile the range.
C25_StopsAtTop ==
    TopRange
    => /\ \A k \in 1..(Len(cidr_records) - 1) :
              cidr_records[k].addr + BlockSize(cidr_records[k]) - 1 < ALL_ONES
       /\ (pc = "summarize" => first >= result[1].min)
       /\ (pc = "done" => Tiles(cidr_records, result[1]))

C25_Witness ==
    /\ TopRange
    /\ pc = "done"
    /\ first = 0
    /\ Len(cidr_records) >= 2
    /\ cidr_records[Len(cidr_records)].addr + BlockSize(cidr_records[Len(cidr_records)]) - 1
           = ALL_ONES

\* C26: every block written for a range is the largest admissible one at its
\* address: it is the whole address space, or its address is not a multiple
\* of twice its size, or a block of twice its size would pass the range's max.
C26_BlocksLargest ==
    Len(result) = 1
    => \A k \in 1..Len(cidr_records) :
           \/ cidr_records[k].prefix = 0
           \/ cidr_records[k].addr % (2 * BlockSize(cidr_records[k])) # 0
           \/ cidr_records[k].addr + 2 * BlockSize(cidr_records[k]) - 1 > result[1].max

\* a block limited by the range's max is followed by a block limited by its address
C26_Witness ==
    /\ pc = "done"
    /\ Len(result) = 1
    /\ Len(cidr_records) >= 3
    /\ cidr_records[1].addr % (2 * BlockSize(cidr_records[1])) # 0
    /\ cidr_records[Len(cidr_records)].addr % (2 * BlockSize(cidr_records[Len(cidr_records)])) = 0
    /\ cidr_records[Len(cidr_records)].prefix < IP_BITS

\* C27: the loop of summarize_address_range is left only when first has
\* passed the range's max or the top of the address space was reached: when
\* its condition fails, it is first <= last that fails, not the cap on count.
C27_CapNeverCuts ==
    pc = "summarize" /\ ~SummarizeMore => first > result[range_index + 1].max

\* C28: read_from_stream returns on every stream: every turn of its loop
\* reads at least one more byte of the stream, so there are at most as many
\* turns as bytes; and the read that ends the loop returns zero bytes because
\* the whole stream has been read.
C28_ReadsToTheEnd ==
    [][ pc = "read"
        => \/ pc' = "read" /\ pos < pos' /\ pos' <= Len(stream)
           \/ pc' = "sort" /\ pos' = pos /\ pos = Len(stream) ]_vars

\* list is the beginning of the list whole
IsPrefix(list, whole) ==
    Len(list) <= Len(whole) /\ list = SubSeq(whole, 1, Len(list))

\* C29: over the chunk reads every valid token of the stream is appended
\* once, in the order of the stream: when read_from_stream returns, the ranges
\* collected are those of the valid tokens of the stream in order; after each
\* turn of the loop they are a beginning of that list, and the carried bytes
\* are the bytes of the buffer from the offset parse_content returned.
C29_EveryTokenOnceInOrder ==
    /\ [](pc = "sort" => ip_range_list.cidrs = TokenRanges)
    /\ [][ pc = "read" /\ pos' > pos
           => /\ IsPrefix(ip_range_list'.cidrs, TokenRanges)
              /\ buffer' = Advance(ChunkContent,
                                   parse_content(ChunkContent, ip_range_list, TRUE, ub).parsed_length)
              /\ reminder_size' = Len(buffer') ]_vars

\* C30: a list made by getIpRangeList(size), size >= 1, has after any appends
\* length <= capacity, as many allocated slots as its capacity says, as many
\* elements as there were appends, and the appended ranges in append order.
C30_ListHoldsAppends ==
    pc = "list"
    => /\ Len(ip_range_list.cidrs) <= ip_range_list.capacity
       /\ ip_range_list.capacity = ip_range_list.slots
       /\ Len(ip_range_list.cidrs) = Len(given)
       /\ ip_range_list.cidrs = given

====
